---- MODULE Spec2Model ----
(***************************************************************************)
(* Model of 01-ONNX/01-intro.ipynb: a linear notebook that builds MyModel, *)
(* exports it with torch.onnx.dynamo_export, saves the ONNX file, loads it *)
(* into an onnxruntime.InferenceSession, runs it and compares the outputs  *)
(* of both sides with torch.testing.assert_close.                          *)
(*                                                                         *)
(* The notebook's statements are the actions.  Results of library calls    *)
(* (random parameters, random input, exported graph, runtime outputs) are  *)
(* drawn from small sets; a library call that can raise has a failing      *)
(* outcome that halts the run, since the notebook has no try/except.       *)
(* Tensor contents are abstracted to ElemN representative float elements,  *)
(* held as integers in units of 1e-6.                                      *)
(***************************************************************************)
EXTENDS Integers, Sequences, FiniteSets, TLC

\* ---------------------------------------------------------------- bounds
MaxOut == 2
MaxIn == 2
ElemN == 1
MaxSize == 40

\* ------------------------------------------------------------- variables
VARIABLES
    pc, executed, error, stdout, fs,
    torch_model, torch_input, onnx_program,
    onnx_input, ort_session, onnxruntime_input, onnxruntime_outputs,
    torch_outputs, compared,
    x, in_size, fpc,
    z_inputs, z_onnx_input, z_feed, zpc,
    tensor, np_result, np_calls, npc

pipeVars == << pc, executed, error, stdout, fs, torch_model, torch_input,
               onnx_program, onnx_input, ort_session, onnxruntime_input,
               onnxruntime_outputs, torch_outputs, compared >>
fwdVars == << x, in_size, fpc >>
zipVars == << z_inputs, z_onnx_input, z_feed, zpc >>
npVars == << tensor, np_result, np_calls, npc >>
vars == << pipeVars, fwdVars, zipVars, npVars >>

\* ------------------------------------------------------ value universes
\* A name not yet bound to an object
Unset == [unset |-> TRUE]
None == "none"
Names == {"x", "y"}
ParamIds == {1, 2}
\* float element values in units of 1e-6: of input tensors, of the
\* framework's outputs and of the runtime's outputs
InputValues == {0, 10}
TorchValues == {0, 10000000}
Values == {11, 10000020}
DataSeqs == [1..ElemN -> InputValues]
Devices == {"cpu", "cuda"}

Min(a, b) == IF a < b THEN a ELSE b
Abs(a) == IF a < 0 THEN 0 - a ELSE a
RECURSIVE Prod(_)
Prod(s) == IF s = << >> THEN 1 ELSE Head(s) * Prod(Tail(s))
SeqsUpTo(S, n) == UNION {[1..k -> S] : k \in 0..n}
Distinct(s) == \A a, b \in DOMAIN s : a # b => s[a] # s[b]
Range(s) == {s[k] : k \in DOMAIN s}
Last(s) == s[Len(s)]

\* ------------------------------------------------- MyModel (cell 4)
\* A shape is a sequence of dimension sizes; ShapeError stands for a raised
\* RuntimeError (size mismatch, kernel larger than input, empty output) and
\* is a value no shape equals.
ShapeError == << -1 >>

\* nn.Conv2d(cin, cout, k): stride 1, no padding
Conv2d(cin, cout, k, s) ==
    IF s = ShapeError \/ Len(s) # 4 THEN ShapeError
    ELSE IF s[2] # cin \/ s[3] < k \/ s[4] < k THEN ShapeError
    ELSE << s[1], cout, s[3] - k + 1, s[4] - k + 1 >>

\* F.relu keeps the shape
relu(s) == s

\* max_pool2d as it would be with ceil_mode=True
max_pool2d_ceil(k, s) ==
    IF s = ShapeError \/ Len(s) # 4 THEN ShapeError
    ELSE << s[1], s[2], (s[3] + k - 1) \div k, (s[4] + k - 1) \div k >>

\* F.max_pool2d(x, k): stride = kernel size, ceil_mode False (floor)
max_pool2d(k, s) ==
    IF s = ShapeError \/ Len(s) # 4 THEN ShapeError
    ELSE IF s[3] \div k < 1 \/ s[4] \div k < 1 THEN ShapeError
    ELSE << s[1], s[2], s[3] \div k, s[4] \div k >>

\* torch.flatten(x, 1): all dimensions after the batch one are merged
flatten(s) ==
    IF s = ShapeError THEN ShapeError
    ELSE << s[1], Prod(Tail(s)) >>

\* nn.Linear(fin, fout)
Linear(fin, fout, s) ==
    IF s = ShapeError THEN ShapeError
    ELSE IF s[Len(s)] # fin THEN ShapeError
    ELSE [k \in 1..Len(s) |-> IF k = Len(s) THEN fout ELSE s[k]]

\* MyModel.__init__: the layers, as functions on shapes
conv1(s) == Conv2d(1, 6, 5, s)
conv2(s) == Conv2d(6, 16, 5, s)
fc1(s) == Linear(16 * 5 * 5, 120, s)
fc2(s) == Linear(120, 84, s)
fc3(s) == Linear(84, 10, s)

\* MyModel.forward, one library call per element, in evaluation order
ForwardCalls ==
    << "conv1", "relu", "max_pool2d", "conv2", "relu", "max_pool2d",
       "flatten", "fc1", "relu", "fc2", "relu", "fc3" >>

NForward == Len(ForwardCalls)

\* The call at position k of forward applied to shape s
ForwardCall(k, s) ==
    CASE ForwardCalls[k] = "conv1" -> conv1(s)
      [] ForwardCalls[k] = "conv2" -> conv2(s)
      [] ForwardCalls[k] = "relu" -> relu(s)
      [] ForwardCalls[k] = "max_pool2d" -> max_pool2d(2, s)
      [] ForwardCalls[k] = "flatten" -> flatten(s)
      [] ForwardCalls[k] = "fc1" -> fc1(s)
      [] ForwardCalls[k] = "fc2" -> fc2(s)
      [] ForwardCalls[k] = "fc3" -> fc3(s)

RECURSIVE ForwardFrom(_, _)
ForwardFrom(k, s) ==
    IF k > NForward THEN s ELSE ForwardFrom(k + 1, ForwardCall(k, s))

\* Shape of torch_model(x) for an input of shape s
forward(s) == ForwardFrom(1, s)

\* torch.randn(1, 1, 32, 32)
SampleShape == << 1, 1, 32, 32 >>

\* ------------------------------------------------- tensors and arrays
\* A tensor is [data, requires_grad, device]; an array is [data].
Tensors == [data : DataSeqs, requires_grad : BOOLEAN, device : Devices]
\* A raised exception in place of a result
NumpyError == [error |-> "RuntimeError"]

\* One tensor method call of to_numpy applied to receiver t:
\*   detach() gives a tensor on the same storage that requires no grad,
\*   cpu() gives the tensor on the CPU, numpy() gives the array and raises
\*   for a tensor that requires grad or is not on the CPU.
TensorCall(call, t) ==
    IF t = NumpyError THEN NumpyError
    ELSE CASE call = "detach" -> [t EXCEPT !.requires_grad = FALSE]
           [] call = "cpu" -> [t EXCEPT !.device = "cpu"]
           [] call = "numpy" ->
                IF t.requires_grad \/ t.device # "cpu" THEN NumpyError
                ELSE [data |-> t.data]

\* to_numpy without the requires_grad branch
to_numpy_calls_nodetach(t) == << "cpu", "numpy" >>

\* to_numpy: the chain of calls the conditional expression selects
to_numpy_calls(t) ==
    IF t.requires_grad THEN << "detach", "cpu", "numpy" >>
    ELSE << "cpu", "numpy" >>

RECURSIVE ApplyCalls(_, _)
ApplyCalls(calls, t) ==
    IF calls = << >> THEN t
    ELSE ApplyCalls(Tail(calls), TensorCall(Head(calls), t))

to_numpy(t) == ApplyCalls(to_numpy_calls(t), t)

\* torch.tensor(array): a new CPU tensor holding a copy of the data
torch_tensor(a) == [data |-> a.data, requires_grad |-> FALSE, device |-> "cpu"]

\* --------------------------------------------- the runtime feed (cell 11)
\* zip losing its last pair
zip_short(a, b) == [k \in 1..(Min(Len(a), Len(b)) - 1) |-> << a[k], b[k] >>]

\* zip(a, b): pairs up to the shorter length
zip(a, b) == [k \in 1..Min(Len(a), Len(b)) |-> << a[k], b[k] >>]

\* {k.name: to_numpy(v) for k, v in pairs}: entries are inserted in order,
\* a later entry with the same key replaces the earlier one
RECURSIVE DictComp(_)
DictComp(pairs) ==
    IF pairs = << >> THEN << >>
    ELSE LET n == Len(pairs)
             d == DictComp(SubSeq(pairs, 1, n - 1))
             key == pairs[n][1].name
             val == to_numpy(pairs[n][2])
         IN [m \in (DOMAIN d) \cup {key} |-> IF m = key THEN val ELSE d[m]]

FeedDict(inputs, adapted) == DictComp(zip(inputs, adapted))

\* ------------------------------------ torch.testing.assert_close (cell 13)
\* Default tolerances for float32: rtol 1.3e-6, atol 1e-5.  Values are in
\* units of 1e-6, so atol is 10 units and rtol is RtolNum / RtolDen.
Atol == 10
RtolNum == 13
RtolDen == 10000000

\* |actual - expected| <= atol + rtol * |expected|, element-wise; on
\* integers the bound may be rounded down without changing the outcome
CloseElem(a, e) == Abs(a - e) <= Atol + (RtolNum * Abs(e)) \div RtolDen

\* TRUE iff assert_close(actual, expected) returns without raising
assert_close(actual, expected) ==
    /\ Len(actual.data) = Len(expected.data)
    /\ \A k \in DOMAIN actual.data : CloseElem(actual.data[k], expected.data[k])

\* ------------------------------------------------------------ file paths
\* A path is its sequence of components; the file system resolves it
\* against the working directory, where "." names the directory itself.
RECURSIVE NormPath(_)
NormPath(p) ==
    IF p = << >> THEN << >>
    ELSE IF Head(p) = "." THEN NormPath(Tail(p))
    ELSE << Head(p) >> \o NormPath(Tail(p))

\* onnx_program.save("my_image_classifier.onnx")
SavePath == << "my_image_classifier.onnx" >>
\* onnxruntime.InferenceSession("./my_image_classifier.onnx", ...)
SessionPath == << ".", "my_image_classifier.onnx" >>
\* torch 2.2 dynamo_export dumps its diagnostics here when the export fails
ReportPath == << "report_dynamo_export.sarif" >>
Provider == "CPUExecutionProvider"
PassMsg == "PyTorch and ONNX Runtime output matched!"

\* =================================================== the notebook's run
\* The statements of the code cells in the order "Run All" executes them.
Order ==
    << "versions", "construct", "randn", "export", "save", "adapt_in",
       "print_in", "session", "feed", "run", "forward", "adapt_out",
       "assert_len", "loop", "print_pass" >>

IndexOf(step) == CHOOSE k \in DOMAIN Order : Order[k] = step

\* The cells run with the session cell ahead of the save cell
SwappedOrder ==
    << "versions", "construct", "randn", "export", "adapt_in", "print_in",
       "session", "save", "feed", "run", "forward", "adapt_out",
       "assert_len", "loop", "print_pass" >>

SuccSwapped(step) ==
    LET k == CHOOSE j \in DOMAIN SwappedOrder : SwappedOrder[j] = step
    IN IF k = Len(SwappedOrder) THEN "done" ELSE SwappedOrder[k + 1]

\* The statement executed after `step` completes without raising
Succ(step) ==
    IF IndexOf(step) = Len(Order) THEN "done" ELSE Order[IndexOf(step) + 1]

\* Outcomes of the library calls
InputTensors == {[data |-> d, requires_grad |-> FALSE, device |-> "cpu",
                  shape |-> SampleShape] : d \in DataSeqs}
\* Input lists an ONNX graph can declare: the names are distinct
GraphInputs == {q \in SeqsUpTo(Names, MaxIn) : Distinct(q)}
\* The graph exported from forward(self, x) declares x, and may declare more
ExportedInputs == {q \in GraphInputs : Len(q) >= 1}
OutTensors == {[data |-> d, requires_grad |-> TRUE, device |-> "cpu"] :
                 d \in [1..ElemN -> TorchValues]}
OutArrays == {[data |-> d] : d \in [1..ElemN -> Values]}
StaleFile == [params |-> 0, inputs |-> << "x" >>]

\* An uncaught exception ends the run
Halt(step, exc) ==
    /\ pc' = "halted"
    /\ error' = exc
    /\ executed' = Append(executed, step)

Advance(step) ==
    /\ pc' = Succ(step)
    /\ error' = error
    /\ executed' = Append(executed, step)

\* cell 2: import the three libraries and print their versions
Versions ==
    /\ pc = "versions"
    /\ stdout' = stdout \o << "torch.__version__", "onnxscript.__version__",
                             "onnxruntime.__version__" >>
    /\ Advance("versions")
    /\ UNCHANGED << fs, torch_model, torch_input, onnx_program, onnx_input,
                    ort_session, onnxruntime_input, onnxruntime_outputs,
                    torch_outputs, compared >>

\* torch_model = MyModel(): randomly initialised parameters
Construct ==
    /\ pc = "construct"
    /\ \E p \in ParamIds : torch_model' = [params |-> p]
    /\ Advance("construct")
    /\ UNCHANGED << stdout, fs, torch_input, onnx_program, onnx_input,
                    ort_session, onnxruntime_input, onnxruntime_outputs,
                    torch_outputs, compared >>

\* torch_input = torch.randn(1, 1, 32, 32)
Randn ==
    /\ pc = "randn"
    /\ \E t \in InputTensors : torch_input' = t
    /\ Advance("randn")
    /\ UNCHANGED << stdout, fs, torch_model, onnx_program, onnx_input,
                    ort_session, onnxruntime_input, onnxruntime_outputs,
                    torch_outputs, compared >>

\* onnx_program = torch.onnx.dynamo_export(torch_model, torch_input)
\* The exported graph holds the model's parameters and declares its inputs.
ExportOk ==
    /\ pc = "export"
    /\ \E q \in ExportedInputs :
         onnx_program' = [params |-> torch_model.params, inputs |-> q]
    /\ Advance("export")
    /\ UNCHANGED << stdout, fs, torch_model, torch_input, onnx_input,
                    ort_session, onnxruntime_input, onnxruntime_outputs,
                    torch_outputs, compared >>

\* dynamo_export raises.  A failure inside the export itself is reported
\* as OnnxExporterError after the exporter has written its diagnostics to
\* report_dynamo_export.sarif; a failure before it (a missing dependency)
\* writes nothing.
ExportFail ==
    /\ pc = "export"
    /\ \E report \in BOOLEAN :
         fs' = IF report
               THEN [f \in (DOMAIN fs) \cup {NormPath(ReportPath)} |->
                       IF f = NormPath(ReportPath) THEN "sarif" ELSE fs[f]]
               ELSE fs
    /\ Halt("export", "OnnxExporterError")
    /\ UNCHANGED << stdout, torch_model, torch_input, onnx_program,
                    onnx_input, ort_session, onnxruntime_input,
                    onnxruntime_outputs, torch_outputs, compared >>

\* onnx_program.save("my_image_classifier.onnx")
Save ==
    /\ pc = "save"
    /\ fs' = [f \in (DOMAIN fs) \cup {NormPath(SavePath)} |->
                IF f = NormPath(SavePath) THEN onnx_program ELSE fs[f]]
    /\ Advance("save")
    /\ UNCHANGED << stdout, torch_model, torch_input, onnx_program,
                    onnx_input, ort_session, onnxruntime_input,
                    onnxruntime_outputs, torch_outputs, compared >>

\* The adapter handed a freshly drawn tensor instead of torch_input
AdaptInFresh ==
    /\ pc = "adapt_in"
    /\ \E t \in InputTensors : onnx_input' = << t >>
    /\ Advance("adapt_in")
    /\ UNCHANGED << stdout, fs, torch_model, torch_input, onnx_program,
                    ort_session, onnxruntime_input, onnxruntime_outputs,
                    torch_outputs, compared >>

\* onnx_input = onnx_program.adapt_torch_inputs_to_onnx(torch_input):
\* the single tensor argument comes back as a 1-tuple
AdaptIn ==
    /\ pc = "adapt_in"
    /\ onnx_input' = << torch_input >>
    /\ Advance("adapt_in")
    /\ UNCHANGED << stdout, fs, torch_model, torch_input, onnx_program,
                    ort_session, onnxruntime_input, onnxruntime_outputs,
                    torch_outputs, compared >>

\* print(f"Input length: ..."); print(f"Sample input: ...")
PrintIn ==
    /\ pc = "print_in"
    /\ stdout' = stdout \o << "Input length", "Sample input" >>
    /\ Advance("print_in")
    /\ UNCHANGED << fs, torch_model, torch_input, onnx_program, onnx_input,
                    ort_session, onnxruntime_input, onnxruntime_outputs,
                    torch_outputs, compared >>

\* ort_session = onnxruntime.InferenceSession("./my_image_classifier.onnx",
\*                                  providers=["CPUExecutionProvider"])
\* The session holds the graph read from the file; a missing file raises.
SessionOk ==
    /\ pc = "session"
    /\ NormPath(SessionPath) \in DOMAIN fs
    /\ ort_session' = [path |-> SessionPath,
                       model |-> fs[NormPath(SessionPath)],
                       providers |-> << Provider >>]
    /\ Advance("session")
    /\ UNCHANGED << stdout, fs, torch_model, torch_input, onnx_program,
                    onnx_input, onnxruntime_input, onnxruntime_outputs,
                    torch_outputs, compared >>

\* The runtime rejects the file (missing, or a graph it cannot load)
SessionFail ==
    /\ pc = "session"
    /\ Halt("session", "RuntimeLoadError")
    /\ UNCHANGED << stdout, fs, torch_model, torch_input, onnx_program,
                    onnx_input, ort_session, onnxruntime_input,
                    onnxruntime_outputs, torch_outputs, compared >>

\* ort_session.get_inputs(): the declared inputs of the loaded graph
get_inputs(session) ==
    [k \in DOMAIN session.model.inputs |-> [name |-> session.model.inputs[k]]]

\* onnxruntime_input = {k.name: to_numpy(v) for k, v in zip(...)}
Feed ==
    /\ pc = "feed"
    /\ onnxruntime_input' = FeedDict(get_inputs(ort_session), onnx_input)
    /\ Advance("feed")
    /\ UNCHANGED << stdout, fs, torch_model, torch_input, onnx_program,
                    onnx_input, ort_session, onnxruntime_outputs,
                    torch_outputs, compared >>

\* The names the session requires in the feed
RequiredNames(session) ==
    {session.model.inputs[k] : k \in DOMAIN session.model.inputs}

\* run with profiling enabled in the session: it leaves a profile file
RunOkProfiling ==
    /\ pc = "run"
    /\ DOMAIN onnxruntime_input = RequiredNames(ort_session)
    /\ \E outs \in SeqsUpTo(OutArrays, MaxOut) : onnxruntime_outputs' = outs
    /\ fs' = [f \in (DOMAIN fs) \cup {<< "onnxruntime_profile.json" >>} |->
                IF f = << "onnxruntime_profile.json" >> THEN "profile"
                ELSE fs[f]]
    /\ Advance("run")
    /\ UNCHANGED << stdout, torch_model, torch_input, onnx_program,
                    onnx_input, ort_session, onnxruntime_input,
                    torch_outputs, compared >>

\* onnxruntime_outputs = ort_session.run(None, onnxruntime_input)
RunOk ==
    /\ pc = "run"
    /\ DOMAIN onnxruntime_input = RequiredNames(ort_session)
    /\ \E outs \in SeqsUpTo(OutArrays, MaxOut) : onnxruntime_outputs' = outs
    /\ Advance("run")
    /\ UNCHANGED << stdout, fs, torch_model, torch_input, onnx_program,
                    onnx_input, ort_session, onnxruntime_input,
                    torch_outputs, compared >>

\* run raises when the feed does not name exactly the declared inputs
RunFail ==
    /\ pc = "run"
    /\ DOMAIN onnxruntime_input # RequiredNames(ort_session)
    /\ Halt("run", "ValueError")
    /\ UNCHANGED << stdout, fs, torch_model, torch_input, onnx_program,
                    onnx_input, ort_session, onnxruntime_input,
                    onnxruntime_outputs, torch_outputs, compared >>

\* torch_outputs = torch_model(torch_input): MyModel.forward on the input;
\* a shape the layers reject raises.  The returned tensor is held as a
\* one-element sequence until the adapter replaces it.
Forward ==
    /\ pc = "forward"
    /\ IF forward(torch_input.shape) = ShapeError
       THEN /\ Halt("forward", "RuntimeError")
            /\ UNCHANGED torch_outputs
       ELSE /\ \E t \in OutTensors :
                 torch_outputs' =
                     << [data |-> t.data, requires_grad |-> TRUE,
                         device |-> "cpu",
                         shape |-> forward(torch_input.shape)] >>
            /\ Advance("forward")
    /\ UNCHANGED << stdout, fs, torch_model, torch_input, onnx_program,
                    onnx_input, ort_session, onnxruntime_input,
                    onnxruntime_outputs, compared >>

\* torch_outputs = onnx_program.adapt_torch_outputs_to_onnx(torch_outputs):
\* the outputs as a flat sequence of tensors, the model's tensor first
AdaptOut ==
    /\ pc = "adapt_out"
    /\ \E outs \in SeqsUpTo(OutTensors, MaxOut) :
         /\ outs # << >> => outs[1].data = torch_outputs[1].data
         /\ torch_outputs' = outs
    /\ Advance("adapt_out")
    /\ UNCHANGED << stdout, fs, torch_model, torch_input, onnx_program,
                    onnx_input, ort_session, onnxruntime_input,
                    onnxruntime_outputs, compared >>

\* The cell without its length assertion
AssertLenSkipped ==
    /\ pc = "assert_len"
    /\ Advance("assert_len")
    /\ UNCHANGED << stdout, fs, torch_model, torch_input, onnx_program,
                    onnx_input, ort_session, onnxruntime_input,
                    onnxruntime_outputs, torch_outputs, compared >>

\* assert len(torch_outputs) == len(onnxruntime_outputs)
AssertLen ==
    /\ pc = "assert_len"
    /\ IF Len(torch_outputs) = Len(onnxruntime_outputs)
       THEN Advance("assert_len")
       ELSE Halt("assert_len", "AssertionError")
    /\ UNCHANGED << stdout, fs, torch_model, torch_input, onnx_program,
                    onnx_input, ort_session, onnxruntime_input,
                    onnxruntime_outputs, torch_outputs, compared >>

\* The loop with a closeness test whose result is ignored (no raise)
LoopNoRaise ==
    /\ pc = "loop"
    /\ LET pairs == zip(torch_outputs, onnxruntime_outputs)
           k == compared + 1
       IN IF k <= Len(pairs)
          THEN /\ compared' = k
               /\ pc' = "loop"
               /\ executed' = Append(executed, "loop")
          ELSE /\ compared' = compared
               /\ pc' = Succ("loop")
               /\ executed' = Append(executed, "loop")
    /\ UNCHANGED << error, stdout, fs, torch_model, torch_input,
                    onnx_program, onnx_input, ort_session,
                    onnxruntime_input, onnxruntime_outputs, torch_outputs >>

\* The loop with the pass message printed inside its body
LoopPrintsInside ==
    /\ pc = "loop"
    /\ LET pairs == zip(torch_outputs, onnxruntime_outputs)
           k == compared + 1
       IN IF k <= Len(pairs)
          THEN /\ compared' = k
               /\ IF assert_close(pairs[k][1], torch_tensor(pairs[k][2]))
                  THEN /\ pc' = "loop"
                       /\ error' = error
                       /\ executed' = Append(executed, "loop")
                       /\ stdout' = Append(stdout, PassMsg)
                  ELSE /\ Halt("loop", "AssertionError")
                       /\ stdout' = stdout
          ELSE /\ compared' = compared
               /\ pc' = Succ("loop")
               /\ error' = error
               /\ executed' = Append(executed, "loop")
               /\ stdout' = stdout
    /\ UNCHANGED << fs, torch_model, torch_input, onnx_program, onnx_input,
                    ort_session, onnxruntime_input, onnxruntime_outputs,
                    torch_outputs >>

\* for torch_output, onnxruntime_output in zip(...):
\*     torch.testing.assert_close(torch_output, torch.tensor(...))
\* One step is one evaluation of the for statement: the next pair is handed
\* to assert_close (`compared` counts them), or zip is exhausted and the
\* loop ends.
Loop ==
    /\ pc = "loop"
    /\ LET pairs == zip(torch_outputs, onnxruntime_outputs)
           k == compared + 1
       IN IF k <= Len(pairs)
          THEN /\ compared' = k
               /\ IF assert_close(pairs[k][1], torch_tensor(pairs[k][2]))
                  THEN /\ pc' = "loop"
                       /\ error' = error
                       /\ executed' = Append(executed, "loop")
                  ELSE Halt("loop", "AssertionError")
          ELSE /\ compared' = compared
               /\ pc' = Succ("loop")
               /\ error' = error
               /\ executed' = Append(executed, "loop")
    /\ UNCHANGED << stdout, fs, torch_model, torch_input, onnx_program,
                    onnx_input, ort_session, onnxruntime_input,
                    onnxruntime_outputs, torch_outputs >>

\* print("PyTorch and ONNX Runtime output matched!") and the two prints
\* of the runtime outputs
PrintPass ==
    /\ pc = "print_pass"
    /\ stdout' = stdout \o << PassMsg, "Output length", "Sample output" >>
    /\ Advance("print_pass")
    /\ UNCHANGED << fs, torch_model, torch_input, onnx_program, onnx_input,
                    ort_session, onnxruntime_input, onnxruntime_outputs,
                    torch_outputs, compared >>

\* Values of the variables the other specifications use
FwdIdle == x = << >> /\ in_size = 0 /\ fpc = 0
ZipIdle == z_inputs = << >> /\ z_onnx_input = << >> /\ z_feed = << >> /\ zpc = "idle"
NpIdle == tensor = Unset /\ np_result = Unset /\ np_calls = << >> /\ npc = "idle"
PipeIdle ==
    /\ pc = "idle" /\ executed = << >> /\ error = None /\ stdout = << >>
    /\ fs = << >> /\ torch_model = Unset /\ torch_input = Unset
    /\ onnx_program = Unset /\ onnx_input = << >> /\ ort_session = Unset
    /\ onnxruntime_input = << >> /\ onnxruntime_outputs = << >>
    /\ torch_outputs = << >> /\ compared = 0

\* The kernel before "Run All": nothing bound, nothing printed; the working
\* directory is empty or still holds the model file of an earlier run.
Init ==
    /\ pc = Order[1]
    /\ executed = << >>
    /\ error = None
    /\ stdout = << >>
    /\ fs \in {<< >>, [f \in {NormPath(SavePath)} |-> StaleFile]}
    /\ torch_model = Unset
    /\ torch_input = Unset
    /\ onnx_program = Unset
    /\ onnx_input = << >>
    /\ ort_session = Unset
    /\ onnxruntime_input = << >>
    /\ onnxruntime_outputs = << >>
    /\ torch_outputs = << >>
    /\ compared = 0
    /\ FwdIdle /\ ZipIdle /\ NpIdle

Next ==
    \/ (Versions /\ UNCHANGED << fwdVars, zipVars, npVars >>)
    \/ (Construct /\ UNCHANGED << fwdVars, zipVars, npVars >>)
    \/ (Randn /\ UNCHANGED << fwdVars, zipVars, npVars >>)
    \/ (ExportOk /\ UNCHANGED << fwdVars, zipVars, npVars >>)
    \/ (ExportFail /\ UNCHANGED << fwdVars, zipVars, npVars >>)
    \/ (Save /\ UNCHANGED << fwdVars, zipVars, npVars >>)
    \/ (AdaptIn /\ UNCHANGED << fwdVars, zipVars, npVars >>)
    \/ (PrintIn /\ UNCHANGED << fwdVars, zipVars, npVars >>)
    \/ (SessionOk /\ UNCHANGED << fwdVars, zipVars, npVars >>)
    \/ (SessionFail /\ UNCHANGED << fwdVars, zipVars, npVars >>)
    \/ (Feed /\ UNCHANGED << fwdVars, zipVars, npVars >>)
    \/ (RunOk /\ UNCHANGED << fwdVars, zipVars, npVars >>)
    \/ (RunFail /\ UNCHANGED << fwdVars, zipVars, npVars >>)
    \/ (Forward /\ UNCHANGED << fwdVars, zipVars, npVars >>)
    \/ (AdaptOut /\ UNCHANGED << fwdVars, zipVars, npVars >>)
    \/ (AssertLen /\ UNCHANGED << fwdVars, zipVars, npVars >>)
    \/ (Loop /\ UNCHANGED << fwdVars, zipVars, npVars >>)
    \/ (PrintPass /\ UNCHANGED << fwdVars, zipVars, npVars >>)

Spec == Init /\ [][Next]_vars

\* ================================== MyModel.forward on square inputs
\* forward evaluated call by call on a 1 x 1 x n x n input; x is the shape
\* of the intermediate tensor, fpc the number of calls made.
InitForward ==
    /\ in_size \in 1..MaxSize
    /\ x = << 1, 1, in_size, in_size >>
    /\ fpc = 0
    /\ PipeIdle /\ ZipIdle /\ NpIdle

ForwardStep ==
    /\ fpc < NForward
    /\ x # ShapeError
    /\ x' = ForwardCall(fpc + 1, x)
    /\ fpc' = fpc + 1
    /\ UNCHANGED in_size

NextForward == ForwardStep /\ UNCHANGED << pipeVars, zipVars, npVars >>

SpecForward == InitForward /\ [][NextForward]_vars

\* ================================== the feed comprehension on any lists
\* The dictionary comprehension of cell 11 applied to any list of declared
\* inputs (distinct names, as an ONNX graph requires) and any adapted inputs.
NodeArgs(q) == [k \in DOMAIN q |-> [name |-> q[k]]]

InitFeed ==
    /\ \E q \in GraphInputs : z_inputs = NodeArgs(q)
    /\ z_onnx_input \in SeqsUpTo(Tensors, MaxIn)
    /\ z_feed = << >>
    /\ zpc = "start"
    /\ PipeIdle /\ FwdIdle /\ NpIdle

BuildFeed ==
    /\ zpc = "start"
    /\ z_feed' = FeedDict(z_inputs, z_onnx_input)
    /\ zpc' = "built"
    /\ UNCHANGED << z_inputs, z_onnx_input >>

NextFeed == BuildFeed /\ UNCHANGED << pipeVars, fwdVars, npVars >>

SpecFeed == InitFeed /\ [][NextFeed]_vars

\* ================================== to_numpy on any tensor
\* to_numpy evaluated call by call: np_calls are the methods called so far,
\* np_result the value the last one returned, tensor the argument object.
NpTensors ==
    [data : SeqsUpTo(Values, ElemN + 1), requires_grad : BOOLEAN,
     device : Devices]

InitToNumpy ==
    /\ tensor \in NpTensors
    /\ np_result = tensor
    /\ np_calls = << >>
    /\ npc = "called"
    /\ PipeIdle /\ FwdIdle /\ ZipIdle

\* detach(), cpu() and numpy() build a new object (or return the receiver
\* itself); none of them writes to the receiver
ReceiverAfter(call, t) == t

ToNumpyCall ==
    /\ npc = "called"
    /\ Len(np_calls) < Len(to_numpy_calls(tensor))
    /\ LET call == to_numpy_calls(tensor)[Len(np_calls) + 1]
       IN /\ np_result' = TensorCall(call, np_result)
          /\ np_calls' = Append(np_calls, call)
          /\ tensor' = IF np_calls = << >> THEN ReceiverAfter(call, tensor)
                       ELSE tensor
    /\ UNCHANGED npc

ToNumpyReturn ==
    /\ npc = "called"
    /\ Len(np_calls) = Len(to_numpy_calls(tensor))
    /\ npc' = "returned"
    /\ UNCHANGED << tensor, np_result, np_calls >>

NextToNumpy ==
    \/ (ToNumpyCall /\ UNCHANGED << pipeVars, fwdVars, zipVars >>)
    \/ (ToNumpyReturn /\ UNCHANGED << pipeVars, fwdVars, zipVars >>)

SpecToNumpy == InitToNumpy /\ [][NextToNumpy]_vars

\* =============================================================== claims

\* ---- C9 (SpecForward)
\* C9 as stated: for the 32 x 32 sample the spatial sizes run 28, 14, 10, 5,
\* flattening gives 400 features and the output is (1, 10); every other
\* square input size that reaches flatten gives a width other than 400.
C9_Original ==
    /\ (in_size = 32 /\ fpc = 7) => x = << 1, 400 >>
    /\ (in_size = 32 /\ fpc = NForward) => x = << 1, 10 >>
    /\ (in_size # 32 /\ fpc = 7 /\ x # ShapeError) => x[2] # 400

\* C9 amended: for the 32 x 32 sample the spatial sizes run 32 -> 28 -> 14
\* -> 10 -> 5, flattening gives 16*5*5 = 400 features, which fc1 accepts, and
\* the output is (1, 10); because max_pool2d rounds down, the square sizes
\* that flatten to 400 are exactly 32, 33, 34 and 35, and every other size
\* that reaches flatten gives another width, which fc1 rejects.
C9_Shapes ==
    /\ in_size = 32 =>
         /\ fpc = 0 => x = << 1, 1, 32, 32 >>
         /\ fpc = 1 => x = << 1, 6, 28, 28 >>
         /\ fpc = 3 => x = << 1, 6, 14, 14 >>
         /\ fpc = 4 => x = << 1, 16, 10, 10 >>
         /\ fpc = 6 => x = << 1, 16, 5, 5 >>
         /\ fpc = 7 => x = << 1, 16 * 5 * 5 >>
         /\ fpc = 8 => x = << 1, 120 >>
         /\ fpc = NForward => x = << 1, 10 >>
    /\ (fpc = 7 /\ x # ShapeError) => (x[2] = 400 <=> in_size \in 32..35)
    /\ (fpc = 8 /\ in_size \notin 32..35) => x = ShapeError
    /\ (fpc = NForward /\ x # ShapeError) => x = << 1, 10 >>

C9_Witness == in_size = 32 /\ fpc = NForward /\ x = << 1, 10 >>

\* ---- C10 (SpecToNumpy)
C10_Returned ==
    npc = "returned" =>
        /\ ("detach" \in Range(np_calls)) <=> tensor.requires_grad
        /\ Len(np_calls) >= 2
        /\ SubSeq(np_calls, Len(np_calls) - 1, Len(np_calls)) = << "cpu", "numpy" >>
        /\ np_result = [data |-> tensor.data]
        /\ to_numpy(tensor) = np_result
        /\ to_numpy([tensor EXCEPT !.requires_grad = ~tensor.requires_grad])
             = np_result

\* C10: to_numpy calls detach exactly when the tensor requires grad; in both
\* branches it then calls cpu() and numpy(); the returned array holds the
\* tensor's values whatever requires_grad is, and no step of it changes the
\* argument tensor.
C10_ToNumpy == [](C10_Returned) /\ [][tensor' = tensor]_vars

C10_Witness ==
    /\ npc = "returned"
    /\ tensor.requires_grad
    /\ tensor.device = "cuda"
    /\ np_calls = << "detach", "cpu", "numpy" >>
    /\ np_result = [data |-> tensor.data]

\* ---- C8 (SpecFeed)
\* C8: the feed maps the name of the i-th declared input to the array of the
\* i-th adapted input for every i up to the shorter length; the elements
\* beyond it are dropped without an error; with distinct names the feed has
\* exactly that many entries, so one entry for a single adapted input.
C8_Feed ==
    zpc = "built" =>
        LET n == Min(Len(z_inputs), Len(z_onnx_input))
        IN /\ \A k \in 1..n :
                /\ z_inputs[k].name \in DOMAIN z_feed
                /\ z_feed[z_inputs[k].name] = [data |-> z_onnx_input[k].data]
           /\ DOMAIN z_feed = {z_inputs[k].name : k \in 1..n}
           /\ Cardinality(DOMAIN z_feed) = n
           /\ (Len(z_onnx_input) = 1 /\ Len(z_inputs) >= 1)
                => Cardinality(DOMAIN z_feed) = 1

C8_Witness ==
    /\ zpc = "built"
    /\ Len(z_inputs) = 2
    /\ Len(z_onnx_input) = 1
    /\ DOMAIN z_feed = {z_inputs[1].name}
    /\ z_feed[z_inputs[1].name] = [data |-> z_onnx_input[1].data]

\* ---- helpers of the claims about the run
Executed(step) == step \in Range(executed)
ModelFile == NormPath(SavePath)
ReportFile == NormPath(ReportPath)
\* Every adapted framework output is close to the runtime output it is
\* paired with, and none is left unpaired
Match ==
    /\ Len(torch_outputs) = Len(onnxruntime_outputs)
    /\ \A k \in DOMAIN torch_outputs :
         assert_close(torch_outputs[k], torch_tensor(onnxruntime_outputs[k]))
PairClose(k) ==
    assert_close(torch_outputs[k], torch_tensor(onnxruntime_outputs[k]))
\* The run ended in one of the two assertions of the compare cell
ComparisonFailed ==
    pc = "halted" /\ executed # << >> /\ Last(executed) \in {"assert_len", "loop"}
FailedAtCloseness ==
    pc = "halted" /\ executed # << >> /\ Last(executed) = "loop"
EarlierMessages ==
    {"torch.__version__", "onnxscript.__version__", "onnxruntime.__version__",
     "Input length", "Sample input"}
FromCompareCell(m) == m \notin EarlierMessages
\* What the compare cell has printed
CompareOutput == SelectSeq(stdout, FromCompareCell)

\* ---- C2 (Spec)
C2_State ==
    /\ PassMsg \in Range(stdout) =>
         /\ error = None
         /\ compared = Len(torch_outputs)
         /\ Match
    /\ compared >= 1 =>
         \A k \in 1..compared :
            ~PairClose(k) =>
               /\ k = compared
               /\ pc = "halted"
               /\ error = "AssertionError"
               /\ PassMsg \notin Range(stdout)
    /\ FailedAtCloseness =>
         /\ compared >= 1
         /\ ~PairClose(compared)
         /\ error = "AssertionError"

\* C2: a closeness assertion that fails halts the run at that pair: the pair
\* is the last one compared, nothing runs after the halt and the matched
\* message is never printed; the message is printed only after every pair
\* has passed.
C2_HaltOnMismatch == [](C2_State) /\ [][pc # "halted"]_vars

C2_Witness ==
    /\ FailedAtCloseness
    /\ compared = 1
    /\ Len(torch_outputs) = 2
    /\ PassMsg \notin Range(stdout)

\* ---- C4 (Spec)
\* C4 as stated: once the comparison is over the cell has printed the pass
\* message if the outputs match and a fail indication if they do not.
C4_Original ==
    (pc = "done" \/ ComparisonFailed) =>
        IF Match THEN PassMsg \in Range(CompareOutput)
        ELSE CompareOutput # << >> /\ PassMsg \notin Range(CompareOutput)

\* C4 amended: when the outputs match within tolerance the cell prints the
\* pass message (and the two output lines); when they do not match it
\* prints nothing: the failing assertion raises an AssertionError that ends
\* the run, and that uncaught exception is the only fail indication.
C4_PassOrRaise ==
    /\ pc = "done" =>
         /\ Match
         /\ error = None
         /\ CompareOutput = << PassMsg, "Output length", "Sample output" >>
    /\ ComparisonFailed =>
         /\ ~Match
         /\ error = "AssertionError"
         /\ CompareOutput = << >>
    /\ (Executed("assert_len") /\ pc \notin {"done", "halted"}) =>
         CompareOutput = << >>

C4_Witness ==
    /\ FailedAtCloseness
    /\ compared = 2
    /\ error = "AssertionError"
    /\ CompareOutput = << >>

\* ---- C6 (Spec)
\* C6: the closeness loop is entered only with as many adapted framework
\* outputs as runtime outputs; a count mismatch halts at the length
\* assertion before any pair is compared; a run that passes has compared
\* every framework output with a runtime output.
C6_LengthGuard ==
    /\ (compared > 0 \/ pc \in {"loop", "print_pass", "done"}) =>
         Len(torch_outputs) = Len(onnxruntime_outputs)
    /\ (pc = "halted" /\ executed # << >> /\ Last(executed) = "assert_len") =>
         /\ compared = 0
         /\ Len(torch_outputs) # Len(onnxruntime_outputs)
         /\ error = "AssertionError"
    /\ (Executed("adapt_out") /\ Len(torch_outputs) # Len(onnxruntime_outputs)) =>
         /\ compared = 0
         /\ pc \in {"assert_len", "halted"}
    /\ pc \in {"print_pass", "done"} =>
         /\ compared = Len(torch_outputs)
         /\ compared = Len(onnxruntime_outputs)
         /\ Len(zip(torch_outputs, onnxruntime_outputs)) = Len(torch_outputs)

C6_Witness ==
    /\ pc = "done"
    /\ compared = 2
    /\ Len(torch_outputs) = 2
    /\ Len(onnxruntime_outputs) = 2

\* ---- C3 (Spec)
\* The statements executed so far follow Order, one after the other, the
\* loop statement repeating
InOrder ==
    /\ executed # << >> => executed[1] = Order[1]
    /\ \A j \in 1..(Len(executed) - 1) :
         \/ IndexOf(executed[j + 1]) = IndexOf(executed[j]) + 1
         \/ executed[j] = "loop" /\ executed[j + 1] = "loop"
C3_State ==
    /\ InOrder
    /\ pc \notin {"done", "halted"} =>
         (executed = << >> \/ IndexOf(pc) \in {IndexOf(Last(executed)),
                                                IndexOf(Last(executed)) + 1})
    /\ onnx_program # Unset =>
         /\ torch_model # Unset
         /\ Executed("construct")
    /\ ModelFile \in DOMAIN fs /\ Executed("save") =>
         /\ onnx_program # Unset
         /\ fs[ModelFile] = onnx_program
    /\ ort_session # Unset =>
         /\ Executed("save")
         /\ NormPath(ort_session.path) = ModelFile
         /\ ort_session.model = fs[ModelFile]
         /\ ort_session.model = onnx_program
    /\ Executed("run") => ort_session # Unset
    /\ Executed("forward") => Executed("run")
    /\ Executed("loop") => Executed("run") /\ Executed("adapt_out")

\* C3: every run executes the steps in one fixed order, one statement at a
\* time: construct before export, save before the session is created, the
\* session from the very file the save step wrote, run before compare.
C3_LinearOrder ==
    /\ [](C3_State)
    /\ [][/\ pc \notin {"done", "halted"}
          /\ executed' \in {executed, Append(executed, pc)}
          /\ pc' \in {pc, Succ(pc), "halted"}]_vars

C3_Witness ==
    /\ pc = "done"
    /\ compared >= 1
    /\ ort_session.model = onnx_program
    /\ NormPath(ort_session.path) = ModelFile
    /\ Len(executed) = Len(Order) + compared

\* ---- C5 (Spec)
\* C5 as stated: the model file is the only file the run creates or
\* modifies, the save step is the only step that writes, and the saved file
\* is not modified afterwards.
C5_Original ==
    /\ [](DOMAIN fs \subseteq {ModelFile})
    /\ [][fs' # fs => pc = "save"]_vars
    /\ [][Executed("save") => fs' = fs]_vars

OnlyChanged(path) ==
    /\ DOMAIN fs' = (DOMAIN fs) \cup {path}
    /\ \A f \in DOMAIN fs : f # path => fs'[f] = fs[f]

\* C5 amended: the only file the notebook's own statements write is
\* my_image_classifier.onnx, written by the save step alone and not modified
\* afterwards; session creation, the inference run and the comparison write
\* no file; the export step writes no file when it succeeds, and when it
\* fails the exporter may leave its diagnostic report
\* report_dynamo_export.sarif, and the run halts there, before the save step.
C5_Files ==
    /\ [](DOMAIN fs \subseteq {ModelFile, ReportFile})
    /\ [](ReportFile \in DOMAIN fs =>
            /\ pc = "halted"
            /\ error = "OnnxExporterError"
            /\ Last(executed) = "export"
            /\ ~Executed("save"))
    /\ [][fs' # fs =>
            \/ pc = "save" /\ OnlyChanged(ModelFile) /\ fs'[ModelFile] = onnx_program
            \/ pc = "export" /\ pc' = "halted" /\ OnlyChanged(ReportFile)]_vars
    /\ [][Executed("save") => fs' = fs]_vars

C5_Witness ==
    /\ pc = "done"
    /\ DOMAIN fs = {ModelFile}
    /\ fs[ModelFile] = onnx_program
    /\ Executed("session") /\ Executed("run") /\ Executed("loop")

\* ---- C7 (Spec)
C7_State ==
    /\ Executed("adapt_in") =>
         \A k \in DOMAIN onnx_input : onnx_input[k] = torch_input
    /\ Executed("feed") =>
         \A n \in DOMAIN onnxruntime_input :
            onnxruntime_input[n] = [data |-> torch_input.data]
    /\ Executed("export") /\ onnx_program # Unset =>
         onnx_program.params = torch_model.params
    /\ ort_session # Unset => ort_session.model.params = torch_model.params

\* C7: the runtime feed is built from the torch_input that the compare cell
\* passes to torch_model, the model compared is the one exported, and once
\* the export has run no step rebinds or changes torch_input, torch_model or
\* onnx_program.
C7_SameData ==
    /\ [](C7_State)
    /\ [][Executed("export") =>
            /\ torch_input' = torch_input
            /\ torch_model' = torch_model
            /\ (onnx_program # Unset => onnx_program' = onnx_program)]_vars

C7_Witness ==
    /\ pc = "done"
    /\ compared >= 1
    /\ DOMAIN onnxruntime_input # {}
    /\ \A n \in DOMAIN onnxruntime_input :
          onnxruntime_input[n] = [data |-> torch_input.data]
    /\ onnx_program.params = torch_model.params

====
